---- MODULE Spec2Model ----
(***************************************************************************)
(* A model of OpenAIFormatConverter                                        *)
(* (packages/core/src/utils/openaiFormatConverter.ts): the translation of  *)
(* a Gemini request to OpenAI messages, of an OpenAI response or stream    *)
(* chunk to a Gemini response, and the two clean-up passes over a list of  *)
(* OpenAI messages.                                                        *)
(*                                                                         *)
(* An optional JavaScript value (undefined, null or a missing key) is the  *)
(* empty sequence; a value v that is there is the one-element sequence     *)
(* <<v>>.  The empty string and the empty array are values that are there. *)
(***************************************************************************)
EXTENDS Integers, Sequences, FiniteSets, TLC

VARIABLES
    pc,          \* which call has returned
    messages,    \* OpenAIMessage[]: the argument of the history passes
    cleaned,     \* cleanOrphanedToolCalls(messages)
    cleanedTwice,\* cleanOrphanedToolCalls(cleaned)
    merged,      \* mergeConsecutiveAssistantMessages(messages)
    contents,    \* request.contents of convertGeminiParametersToOpenAI
    next,        \* the number of contents the for loop has gone through
    now,         \* the last reading of Date.now()
    request,     \* openAIRequest.messages, as built so far
    marks,       \* marks[k]: Len(request) after the k-th content
    completion,  \* the ChatCompletion or ChatCompletionChunk to convert
    result       \* what the conversion returned or threw

vars == <<pc, messages, cleaned, cleanedTwice, merged, contents, next, now,
          request, marks, completion, result>>

-----------------------------------------------------------------------------
(* Bounds of the model. *)

\* The longest list of OpenAI messages given to a history pass.
MaxLen == 3
\* The most tool_calls entries in one list of OpenAI messages.
MaxCalls == 2
\* The most contents (turns) of a Gemini request.
MaxTurns == 2
\* The most parts in all contents of a Gemini request.
MaxParts == 3
\* The last reading of the clock (the first is 1).
MaxClock == 2
\* The most choices of a response or chunk.
MaxChoices == 2

-----------------------------------------------------------------------------
(* Optional values and JavaScript truthiness. *)

Absent == <<>>
Some(v) == <<v>>
IsThere(o) == Len(o) = 1
\* Boolean(s) for a string, null or undefined: there and not "".
Truthy(o) == Len(o) = 1 /\ o[1] # ""

\* The sequences over S of length at most n.
SeqUpTo(S, n) == UNION {[1..k -> S] : k \in 0..n}

\* Array.prototype.join: the strings of s with sep between them.
RECURSIVE join(_, _)
join(s, sep) ==
    IF Len(s) = 0 THEN ""
    ELSE IF Len(s) = 1 THEN s[1]
    ELSE s[1] \o sep \o join(Tail(s), sep)

\* The concatenation of the sequences of s.
RECURSIVE Flatten(_)
Flatten(s) == IF Len(s) = 0 THEN <<>> ELSE s[1] \o Flatten(Tail(s))

-----------------------------------------------------------------------------
(* OpenAIToolCall and OpenAIMessage. *)

ToolCall(id, name, arguments) ==
    [id |-> id, type |-> "function",
     function |-> [name |-> name, arguments |-> arguments]]

Message(role, content, tool_calls, tool_call_id) ==
    [role |-> role, content |-> content, tool_calls |-> tool_calls,
     tool_call_id |-> tool_call_id]

\* message.tool_calls || []
CallsOf(message) ==
    IF IsThere(message.tool_calls) THEN message.tool_calls[1] ELSE <<>>

-----------------------------------------------------------------------------
(* cleanOrphanedToolCalls *)

\* First pass: the ids of all tool calls of all assistant messages.
toolCallIds(msgs) ==
    UNION {{msgs[i].tool_calls[1][j].id : j \in 1..Len(msgs[i].tool_calls[1])} :
           i \in {k \in 1..Len(msgs) :
                    msgs[k].role = "assistant" /\ IsThere(msgs[k].tool_calls)}}

\* A plausible slip: the response is looked for after the first message only.
hasResponseSkippingFirst(msgs, toolCall) ==
    \E i \in 2..Len(msgs) :
        msgs[i].role = "tool" /\ msgs[i].tool_call_id = Some(toolCall.id)

\* messages.some(m => m.role === 'tool' && m.tool_call_id === toolCall.id)
hasResponse(msgs, toolCall) ==
    \E i \in 1..Len(msgs) :
        msgs[i].role = "tool" /\ msgs[i].tool_call_id = Some(toolCall.id)

validToolCalls(msgs, message) ==
    SelectSeq(message.tool_calls[1], LAMBDA toolCall : hasResponse(msgs, toolCall))

\* Second pass, one message: what is pushed to cleanedMessages for it.
cleanMessage(msgs, message) ==
    IF message.role = "tool"
    THEN IF Truthy(message.tool_call_id)
            /\ message.tool_call_id[1] \in toolCallIds(msgs)
         THEN <<message>>
         ELSE <<>>
    ELSE IF message.role = "assistant" /\ IsThere(message.tool_calls)
    THEN <<[message EXCEPT !.tool_calls =
              IF Len(validToolCalls(msgs, message)) > 0
              THEN Some(validToolCalls(msgs, message))
              ELSE Absent]>>
    ELSE <<message>>

cleanOrphanedToolCalls(msgs) ==
    Flatten([i \in 1..Len(msgs) |-> cleanMessage(msgs, msgs[i])])

-----------------------------------------------------------------------------
(* The history passes: the lists they are given. *)

\* Tool call ids: the empty string, and two that differ.
Ids == {"", "a", "b"}

\* The OpenAI messages with exactly k tool_calls entries given to
\* cleanOrphanedToolCalls.
CleanMessages(k) ==
    IF k = 0
    THEN {Message("user", Some("hi"), Absent, Absent),
          Message("assistant", Some("t"), Absent, Absent),
          Message("assistant", Absent, Some(<<>>), Absent)}
         \cup {Message("tool", Some("{}"), Absent, id) :
                 id \in {Absent} \cup {Some(i) : i \in Ids}}
    ELSE {Message("assistant", Absent,
                  Some([j \in 1..k |-> ToolCall(ids[j], "f", "{}")]), Absent) :
            ids \in [1..k -> Ids]}

\* The tool_calls entries of a list of messages.
totalCalls(msgs) == Len(Flatten([i \in 1..Len(msgs) |-> CallsOf(msgs[i])]))

\* Before the pass: the history is empty.
InitClean ==
    /\ pc = "history"
    /\ messages = <<>>
    /\ cleaned = <<>> /\ cleanedTwice = <<>> /\ merged = <<>>
    /\ contents = <<>> /\ next = 0 /\ now = 0 /\ request = <<>> /\ marks = <<>>
    /\ completion = <<>> /\ result = <<>>

\* The caller's history gets one more message, within the bounds.
GrowCleanHistory ==
    /\ pc = "history"
    /\ Len(messages) < MaxLen
    /\ \E k \in 0..(MaxCalls - totalCalls(messages)) :
         \E m \in CleanMessages(k) : messages' = Append(messages, m)
    /\ UNCHANGED <<pc, cleaned, cleanedTwice, merged, contents, next, now,
                   request, marks, completion, result>>

\* cleanOrphanedToolCalls(messages) returns.
Clean ==
    /\ pc = "history"
    /\ cleaned' = cleanOrphanedToolCalls(messages)
    /\ pc' = "cleaned"
    /\ UNCHANGED <<messages, cleanedTwice, merged, contents, next, now, request,
                   marks, completion, result>>

\* cleanOrphanedToolCalls is called again, on what it returned.
CleanAgain ==
    /\ pc = "cleaned"
    /\ cleanedTwice' = cleanOrphanedToolCalls(cleaned)
    /\ pc' = "cleanedTwice"
    /\ UNCHANGED <<messages, cleaned, merged, contents, next, now, request,
                   marks, completion, result>>

NextClean == GrowCleanHistory \/ Clean \/ CleanAgain

SpecClean == InitClean /\ [][NextClean]_vars

\* The tool messages of a list and the tool_calls entries of its assistant
\* messages, each with the index of its message.
ToolMessagesAt(msgs) == {i \in 1..Len(msgs) : msgs[i].role = "tool"}
AssistantCallsAt(msgs) ==
    UNION {{<<i, j>> : j \in 1..Len(CallsOf(msgs[i]))} :
           i \in {k \in 1..Len(msgs) : msgs[k].role = "assistant"}}

\* C1: after cleanOrphanedToolCalls, every tool message answers a tool_calls
\* entry of an assistant message of the result, and every tool_calls entry of
\* an assistant message of the result is answered by a tool message of the
\* result.
C1_Paired ==
    pc = "cleaned" =>
        /\ \A t \in ToolMessagesAt(cleaned) :
             \E c \in AssistantCallsAt(cleaned) :
                cleaned[t].tool_call_id = Some(CallsOf(cleaned[c[1]])[c[2]].id)
        /\ \A c \in AssistantCallsAt(cleaned) :
             \E t \in ToolMessagesAt(cleaned) :
                cleaned[t].tool_call_id = Some(CallsOf(cleaned[c[1]])[c[2]].id)

\* C2: cleanOrphanedToolCalls is idempotent: cleaning its result again gives
\* the same messages, in the same order, with the same fields.
C2_Idempotent == pc = "cleanedTwice" => cleanedTwice = cleaned

\* The messages that are not tool messages: the pass keeps each of them, in
\* order, so the k-th of the argument becomes the k-th of the result.
NotToolAt(msgs) ==
    SelectSeq([i \in 1..Len(msgs) |-> i], LAMBDA i : msgs[i].role # "tool")

\* The tool_calls entry j of the argument's message i is answered by a tool
\* message later than i, or anywhere, in the argument.
AnsweredLater(i, j) ==
    \E t \in (i + 1)..Len(messages) :
        messages[t].role = "tool"
        /\ messages[t].tool_call_id = Some(messages[i].tool_calls[1][j].id)
AnsweredAnywhere(i, j) ==
    \E t \in 1..Len(messages) :
        messages[t].role = "tool"
        /\ messages[t].tool_call_id = Some(messages[i].tool_calls[1][j].id)

\* The entries of the argument's message i that predicate Kept(i, j) keeps.
EntriesKept(i, Kept(_, _)) ==
    LET calls == messages[i].tool_calls[1]
        at == SelectSeq([j \in 1..Len(calls) |-> j], LAMBDA j : Kept(i, j))
    IN [n \in 1..Len(at) |-> calls[at[n]]]

EntriesKeptAre(Kept(_, _)) ==
    pc = "cleaned" =>
        /\ Len(NotToolAt(cleaned)) = Len(NotToolAt(messages))
        /\ \A k \in 1..Len(NotToolAt(messages)) :
             LET i == NotToolAt(messages)[k]
                 o == NotToolAt(cleaned)[k]
             IN (messages[i].role = "assistant" /\ IsThere(messages[i].tool_calls))
                => CallsOf(cleaned[o]) = EntriesKept(i, Kept)

-----------------------------------------------------------------------------
(* mergeConsecutiveAssistantMessages *)

\* [currentAssistantMessage.content, message.content].filter(Boolean).join('\n')
mergedContent(current, message) ==
    LET kept == SelectSeq(<<current.content, message.content>>, Truthy)
    IN join([i \in 1..Len(kept) |-> kept[i][1]], "\n")

\* A plausible slip: the merged message carries the later message's tool
\* calls only.
mergeAssistantLosingCalls(current, message) ==
    [current EXCEPT
        !.content = IF mergedContent(current, message) # ""
                    THEN Some(mergedContent(current, message)) ELSE Absent,
        !.role = "assistant",
        !.tool_calls = Some(CallsOf(message))]

\* The message that replaces currentAssistantMessage when an assistant message
\* follows it.
mergeAssistant(current, message) ==
    [current EXCEPT
        !.content = IF mergedContent(current, message) # ""
                    THEN Some(mergedContent(current, message)) ELSE Absent,
        !.role = "assistant",
        !.tool_calls = Some(CallsOf(current) \o CallsOf(message))]

\* The body of the for loop, on the loop's two variables.
mergeStep(st, message) ==
    IF message.role = "assistant"
    THEN IF IsThere(st.currentAssistantMessage)
         THEN [st EXCEPT !.currentAssistantMessage =
                 Some(mergeAssistant(st.currentAssistantMessage[1], message))]
         ELSE [st EXCEPT !.currentAssistantMessage = Some(message)]
    ELSE [mergedMessages |->
             st.mergedMessages \o st.currentAssistantMessage \o <<message>>,
          currentAssistantMessage |-> Absent]

RECURSIVE mergeLoop(_, _)
mergeLoop(msgs, st) ==
    IF Len(msgs) = 0 THEN st
    ELSE mergeLoop(Tail(msgs), mergeStep(st, Head(msgs)))

mergeConsecutiveAssistantMessages(msgs) ==
    LET st == mergeLoop(msgs, [mergedMessages |-> <<>>,
                               currentAssistantMessage |-> Absent])
    IN st.mergedMessages \o st.currentAssistantMessage

\* The OpenAI messages with exactly k tool_calls entries given to
\* mergeConsecutiveAssistantMessages.
MergeMessages(k) ==
    IF k = 0
    THEN {Message("user", Some("hi"), Absent, Absent),
          Message("tool", Some("{}"), Absent, Some("a"))}
         \cup {Message("assistant", c, t, Absent) :
                 c \in {Absent, Some(""), Some("x")}, t \in {Absent, Some(<<>>)}}
    ELSE {Message("assistant", c,
                  Some([j \in 1..k |-> ToolCall(ids[j], "f", "{}")]), Absent) :
            c \in {Absent, Some("y")}, ids \in [1..k -> {"a", "b"}]}

InitMerge ==
    /\ pc = "history"
    /\ messages = <<>>
    /\ cleaned = <<>> /\ cleanedTwice = <<>> /\ merged = <<>>
    /\ contents = <<>> /\ next = 0 /\ now = 0 /\ request = <<>> /\ marks = <<>>
    /\ completion = <<>> /\ result = <<>>

\* The caller's history gets one more message, within the bounds.
GrowMergeHistory ==
    /\ pc = "history"
    /\ Len(messages) < MaxLen
    /\ \E k \in 0..(MaxCalls - totalCalls(messages)) :
         \E m \in MergeMessages(k) : messages' = Append(messages, m)
    /\ UNCHANGED <<pc, cleaned, cleanedTwice, merged, contents, next, now,
                   request, marks, completion, result>>

\* mergeConsecutiveAssistantMessages(messages) returns.
Merge ==
    /\ pc = "history"
    /\ merged' = mergeConsecutiveAssistantMessages(messages)
    /\ pc' = "merged"
    /\ UNCHANGED <<messages, cleaned, cleanedTwice, contents, next, now, request,
                   marks, completion, result>>

NextMerge == GrowMergeHistory \/ Merge

SpecMerge == InitMerge /\ [][NextMerge]_vars

\* The maximal runs of adjacent assistant messages of the argument: where
\* each starts and ends.
IsAssistant(i) == messages[i].role = "assistant"
RunStarts == {s \in 1..Len(messages) : IsAssistant(s) /\ (s = 1 \/ ~IsAssistant(s - 1))}
RunEnd(s) ==
    CHOOSE e \in s..Len(messages) :
        /\ \A i \in s..e : IsAssistant(i)
        /\ e = Len(messages) \/ ~IsAssistant(e + 1)
\* Where the message (or the run starting) at i of the argument is in the
\* result: after the messages that are not assistant messages, and the runs,
\* before it.
PlaceOf(i) ==
    Cardinality({j \in 1..(i - 1) : ~IsAssistant(j)})
    + Cardinality({s \in RunStarts : s < i}) + 1

\* C3: mergeConsecutiveAssistantMessages puts one assistant message in the
\* place of each maximal run of adjacent assistant messages, whose tool_calls
\* are the run's tool_calls in order (none counting as empty) when the run has
\* two messages or more; no two assistant messages are adjacent in the
\* result; the other messages are unchanged, in their order.
C3_RunsMerged ==
    pc = "merged" =>
        /\ Len(merged) = Cardinality({j \in 1..Len(messages) : ~IsAssistant(j)})
                         + Cardinality(RunStarts)
        /\ \A i \in 1..Len(messages) :
             ~IsAssistant(i) => merged[PlaceOf(i)] = messages[i]
        /\ \A s \in RunStarts :
             LET e == RunEnd(s)
                 m == merged[PlaceOf(s)]
             IN /\ m.role = "assistant"
                /\ e = s => m = messages[s]
                /\ e > s =>
                     /\ IsThere(m.tool_calls)
                     /\ m.tool_calls[1] =
                          Flatten([k \in 1..(e - s + 1) |->
                                     CallsOf(messages[s + k - 1])])
        /\ \A i \in 1..(Len(merged) - 1) :
             ~(merged[i].role = "assistant" /\ merged[i + 1].role = "assistant")

\* C3's case: a run of two assistant messages or more, each with tool calls,
\* after a message that is not an assistant message, has been merged.
C3_Witness ==
    /\ pc = "merged"
    /\ \E s \in RunStarts :
         /\ s > 1
         /\ RunEnd(s) > s
         /\ \A i \in s..RunEnd(s) : Len(CallsOf(messages[i])) > 0
         /\ Len(CallsOf(merged[PlaceOf(s)])) >= 2

-----------------------------------------------------------------------------
(* convertGeminiParametersToOpenAI *)

\* A JSON object is the sequence of its <<key, number>> pairs.
\* JSON.stringify of it:
stringify(object) ==
    "{" \o join([i \in 1..Len(object) |->
                   "\"" \o object[i][1] \o "\":" \o ToString(object[i][2])], ",")
        \o "}"

\* Part: one of { text }, { functionCall: { name, args } } and
\* { functionResponse: { name, response } }; args and response are optional.
TextPart(text) ==
    [kind |-> "text", text |-> text, name |-> Absent, value |-> Absent]
FunctionCallPart(name, args) ==
    [kind |-> "functionCall", text |-> "", name |-> Some(name), value |-> args]
FunctionResponsePart(name, response) ==
    [kind |-> "functionResponse", text |-> "", name |-> name, value |-> response]

\* value || {}
OrEmptyObject(value) == IF IsThere(value) THEN value[1] ELSE <<>>

\* The parts with key `kind`, in order.
partsOf(content, kind) == SelectSeq(content.parts, LAMBDA part : part.kind = kind)

\* The text parts' texts joined by newline.
textParts(content) ==
    join([i \in 1..Len(partsOf(content, "text")) |->
            partsOf(content, "text")[i].text], "\n")

\* functionCalls.map((fc, index) => ...): readings[i] is what Date.now()
\* returned for the i-th function call; index counts from 0.
tool_calls(content, readings) ==
    [i \in 1..Len(partsOf(content, "functionCall")) |->
        ToolCall("call_" \o ToString(readings[i]) \o "_" \o ToString(i - 1),
                 partsOf(content, "functionCall")[i].name[1],
                 stringify(OrEmptyObject(partsOf(content, "functionCall")[i].value)))]

\* The tool messages of the content's function responses.
toolMessages(content) ==
    [i \in 1..Len(partsOf(content, "functionResponse")) |->
        LET fr == partsOf(content, "functionResponse")[i]
        IN Message("tool", Some(stringify(OrEmptyObject(fr.value))), Absent,
                   Some("call_" \o (IF Truthy(fr.name) THEN fr.name[1] ELSE "unknown")))]

\* A plausible slip: the tool messages are pushed before the message that
\* carries the function calls.
convertContentResponsesFirst(content, readings) ==
    IF content.role = "user" \/ content.role = "model"
    THEN (IF textParts(content) # ""
          THEN <<Message(IF content.role = "model" THEN "assistant" ELSE content.role,
                         Some(textParts(content)), Absent, Absent)>>
          ELSE <<>>)
         \o toolMessages(content)
         \o (IF Len(partsOf(content, "functionCall")) > 0
             THEN <<Message("assistant", Absent,
                            Some(tool_calls(content, readings)), Absent)>>
             ELSE <<>>)
    ELSE <<>>

\* The body of the for loop over contents: the messages pushed for one
\* content.
convertContent(content, readings) ==
    IF content.role = "user" \/ content.role = "model"
    THEN (IF textParts(content) # ""
          THEN <<Message(IF content.role = "model" THEN "assistant" ELSE content.role,
                         Some(textParts(content)), Absent, Absent)>>
          ELSE <<>>)
         \o (IF Len(partsOf(content, "functionCall")) > 0
             THEN <<Message("assistant", Absent,
                            Some(tool_calls(content, readings)), Absent)>>
             ELSE <<>>)
         \o toolMessages(content)
    ELSE <<>>

\* How many times the body reads the clock for a content.
clockReads(content) ==
    IF content.role = "user" \/ content.role = "model"
    THEN Len(partsOf(content, "functionCall"))
    ELSE 0

\* The parts of the requests converted: the part at place i of a content is a
\* text part, empty or not, a function call or a function response, and all
\* but the empty text carry i, so that parts of a kind differ by their place.
\* The first part's call has no args.
PartsAt(i) ==
    {TextPart(""),
     TextPart("t" \o ToString(i)),
     FunctionCallPart("f", IF i = 1 THEN Absent ELSE Some(<<<<"k", i>>>>)),
     FunctionResponsePart(Some("f"), Some(<<<<"ok", i>>>>))}

\* The lists of k such parts.
PartLists(k) == {ps \in [1..k -> UNION {PartsAt(i) : i \in 1..k}] :
                    \A i \in 1..k : ps[i] \in PartsAt(i)}

Roles == {"user", "model", "system"}

\* The parts of a list of contents.
totalParts(cs) == Len(Flatten([i \in 1..Len(cs) |-> cs[i].parts]))

\* n readings of a clock that does not go back, the last having been `from`.
Readings(n, from) ==
    {r \in [1..n -> from..MaxClock] : \A i \in 1..(n - 1) : r[i] <= r[i + 1]}

\* The call starts: the loop has gone through no content yet.  contents
\* holds the contents the loop has gone through; those to come are any, within
\* the bounds, and the request may end after any of them, so that request is,
\* in every state, the messages of the request whose contents are contents.
InitConvert ==
    /\ pc = "converting"
    /\ contents = <<>>
    /\ next = 0 /\ now = 1 /\ request = <<>> /\ marks = <<>>
    /\ messages = <<>> /\ cleaned = <<>> /\ cleanedTwice = <<>> /\ merged = <<>>
    /\ completion = <<>> /\ result = <<>>

\* One pass of the for loop over contents, on the next content of the request.
ConvertContent ==
    /\ pc = "converting"
    /\ next < MaxTurns
    /\ \E r \in Roles, k \in 0..(MaxParts - totalParts(contents)) :
         \E ps \in PartLists(k) :
            LET content == [role |-> r, parts |-> ps]
            IN \E readings \in Readings(clockReads(content), now) :
                 /\ contents' = Append(contents, content)
                 /\ request' = request \o convertContent(content, readings)
                 /\ now' = IF Len(readings) > 0 THEN readings[Len(readings)] ELSE now
    /\ next' = next + 1
    /\ marks' = Append(marks, Len(request'))
    /\ UNCHANGED <<pc, messages, cleaned, cleanedTwice, merged, completion, result>>

NextConvert == ConvertContent

SpecConvert == InitConvert /\ [][NextConvert]_vars

\* C4: no two synthesized tool_calls entries of the request have the same id,
\* whatever the clock read.
C4_IdsUnique ==
    \A c, d \in AssistantCallsAt(request) :
        c # d => CallsOf(request[c[1]])[c[2]].id # CallsOf(request[d[1]])[d[2]].id

\* The messages pushed for the k-th content.
Segment(k) ==
    SubSeq(request, (IF k = 1 THEN 0 ELSE marks[k - 1]) + 1, marks[k])

Translated(k) == contents[k].role \in {"user", "model"}

\* Every function response of the request is for a function called exactly
\* once in the request, in an earlier content.
EachResponseHasItsCall ==
    \A k \in 1..Len(contents) :
        Translated(k) =>
            \A i \in 1..Len(partsOf(contents[k], "functionResponse")) :
                LET name == partsOf(contents[k], "functionResponse")[i].name
                    callsAt ==
                        UNION {{<<u, j>> :
                                  j \in {x \in 1..Len(partsOf(contents[u], "functionCall")) :
                                           partsOf(contents[u], "functionCall")[x].name = name}} :
                               u \in {v \in 1..Len(contents) : Translated(v)}}
                IN /\ Cardinality(callsAt) = 1
                   /\ \A c \in callsAt : c[1] < k

\* C5: when every function response follows the one call of its function,
\* each tool message's tool_call_id is the id of the tool_calls entry made for
\* that call, in an assistant message earlier in the request.
C5_ResponsesCorrelated ==
    EachResponseHasItsCall =>
        \A k \in 1..Len(contents) :
            Translated(k) =>
                \A i \in 1..Len(partsOf(contents[k], "functionResponse")) :
                    LET at == marks[k] - Len(partsOf(contents[k], "functionResponse")) + i
                        fr == partsOf(contents[k], "functionResponse")[i]
                    IN \E c \in AssistantCallsAt(request) :
                         /\ c[1] < at
                         /\ Some(CallsOf(request[c[1]])[c[2]].function.name) = fr.name
                         /\ request[at].tool_call_id = Some(CallsOf(request[c[1]])[c[2]].id)

\* C10: the messages of each content follow those of the contents before it
\* and are, in this order: one text message when the text parts joined by
\* newline are not empty; one assistant message without content, with one
\* tool_calls entry per function call in the calls' order, when there is a
\* call; one tool message per function response in the responses' order.  A
\* content whose role is neither user nor model gives no message.
C10_EmissionOrder ==
    /\ Len(marks) = next
    /\ Len(request) = (IF next = 0 THEN 0 ELSE marks[next])
    /\ \A k \in 1..Len(marks) :
         LET content == contents[k]
             seg == Segment(k)
             C == partsOf(content, "functionCall")
             R == partsOf(content, "functionResponse")
             nt == IF textParts(content) # "" THEN 1 ELSE 0
             nc == IF Len(C) > 0 THEN 1 ELSE 0
         IN IF ~Translated(k) THEN seg = <<>>
            ELSE /\ Len(seg) = nt + nc + Len(R)
                 /\ nt = 1 =>
                      seg[1] = Message(IF content.role = "model" THEN "assistant"
                                       ELSE "user",
                                       Some(textParts(content)), Absent, Absent)
                 /\ nc = 1 =>
                      /\ seg[nt + 1].role = "assistant"
                      /\ seg[nt + 1].content = Absent
                      /\ seg[nt + 1].tool_call_id = Absent
                      /\ IsThere(seg[nt + 1].tool_calls)
                      /\ Len(seg[nt + 1].tool_calls[1]) = Len(C)
                      /\ \A j \in 1..Len(C) :
                           /\ Some(seg[nt + 1].tool_calls[1][j].function.name) = C[j].name
                           /\ seg[nt + 1].tool_calls[1][j].function.arguments
                                = stringify(OrEmptyObject(C[j].value))
                 /\ \A j \in 1..Len(R) :
                      /\ seg[nt + nc + j].role = "tool"
                      /\ seg[nt + nc + j].tool_calls = Absent
                      /\ seg[nt + nc + j].content
                           = Some(stringify(OrEmptyObject(R[j].value)))
                      /\ seg[nt + nc + j].tool_call_id
                           = Some("call_" \o (IF Truthy(R[j].name) THEN R[j].name[1]
                                              ELSE "unknown"))

\* C10's case: after a content that gave a text message, a content with a
\* function call and a function response has given its assistant message and
\* then its tool message.
C10_Witness ==
    /\ Len(marks) = 2
    /\ marks[1] = 1
    /\ Truthy(request[1].content)
    /\ Len(Segment(2)) = 2
    /\ Len(CallsOf(Segment(2)[1])) = 1
    /\ Segment(2)[2].role = "tool"

-----------------------------------------------------------------------------
(* convertToGeminiFormat and convertStreamChunkToGeminiFormat *)

\* JSON.parse of the argument strings met: the object, or a SyntaxError.
parse(text) ==
    CASE text = "{}" -> [ok |-> TRUE, value |-> <<>>]
      [] text = "{\"k\":1}" -> [ok |-> TRUE, value |-> <<<<"k", 1>>>>]
      [] OTHER -> [ok |-> FALSE, value |-> <<>>]

\* A plausible slip: the case for tool_calls is missing.
mapFinishReasonWithoutToolCalls(openAIReason) ==
    CASE openAIReason = Some("stop") -> "STOP"
      [] openAIReason = Some("length") -> "MAX_TOKENS"
      [] openAIReason = Some("content_filter") -> "SAFETY"
      [] OTHER -> "OTHER"

\* mapFinishReason: the switch; its argument can be missing at run time.
mapFinishReason(openAIReason) ==
    CASE openAIReason = Some("stop") -> "STOP"
      [] openAIReason = Some("length") -> "MAX_TOKENS"
      [] openAIReason = Some("tool_calls") -> "STOP"
      [] openAIReason = Some("content_filter") -> "SAFETY"
      [] OTHER -> "OTHER"

\* What a call gives: the value returned, or the error thrown.
Returned(value) == [error |-> Absent, value |-> Some(value)]
Thrown(error) == [error |-> Some(error), value |-> Absent]

\* The tool calls of type function, in order.
functionToolCalls(choice) ==
    SelectSeq(CallsOf(choice), LAMBDA toolCall : toolCall.type = "function")

\* convertToGeminiFormat: the parts of the candidate.  choice.content and
\* choice.tool_calls are choice.message.content and choice.message.tool_calls.
fullParts(choice) ==
    (IF Truthy(choice.content) THEN <<TextPart(choice.content[1])>> ELSE <<>>)
    \o [i \in 1..Len(functionToolCalls(choice)) |->
          LET fn == functionToolCalls(choice)[i].function
          IN FunctionCallPart(fn.name,
                 Some(parse(IF fn.arguments # "" THEN fn.arguments ELSE "{}").value))]

fullParses(choice) ==
    \A i \in 1..Len(functionToolCalls(choice)) :
        LET fn == functionToolCalls(choice)[i].function
        IN parse(IF fn.arguments # "" THEN fn.arguments ELSE "{}").ok

usageMetadata(usage) ==
    IF IsThere(usage)
    THEN Some([promptTokenCount |-> usage[1].prompt_tokens,
               candidatesTokenCount |-> usage[1].completion_tokens,
               totalTokenCount |-> usage[1].total_tokens])
    ELSE Absent

\* A plausible slip: no choice gives a response without candidates, as for a
\* chunk.
convertToGeminiFormatWithoutThrow(c) ==
    IF Len(c.choices) = 0
    THEN Returned([candidates |-> <<>>, usageMetadata |-> Absent])
    ELSE IF ~fullParses(c.choices[1])
    THEN Thrown("SyntaxError")
    ELSE Returned([candidates |->
                     <<[content |-> [parts |-> fullParts(c.choices[1]),
                                     role |-> "model"],
                        finishReason |->
                            Some(mapFinishReason(c.choices[1].finish_reason))]>>,
                   usageMetadata |-> usageMetadata(c.usage)])

convertToGeminiFormat(c) ==
    IF Len(c.choices) = 0
    THEN Thrown("No choices in OpenAI response")
    ELSE IF ~fullParses(c.choices[1])
    THEN Thrown("SyntaxError")
    ELSE Returned([candidates |->
                     <<[content |-> [parts |-> fullParts(c.choices[1]),
                                     role |-> "model"],
                        finishReason |->
                            Some(mapFinishReason(c.choices[1].finish_reason))]>>,
                   usageMetadata |-> usageMetadata(c.usage)])

\* convertStreamChunkToGeminiFormat: the parts of the candidate.
\* choice.content and choice.tool_calls are choice.delta.content and
\* choice.delta.tool_calls.
chunkParts(choice) ==
    (IF Truthy(choice.content) THEN <<TextPart(choice.content[1])>> ELSE <<>>)
    \o [i \in 1..Len(functionToolCalls(choice)) |->
          LET fn == functionToolCalls(choice)[i].function
          IN FunctionCallPart(fn.name,
                 Some(IF fn.arguments # "" THEN parse(fn.arguments).value ELSE <<>>))]

chunkParses(choice) ==
    \A i \in 1..Len(functionToolCalls(choice)) :
        LET fn == functionToolCalls(choice)[i].function
        IN fn.arguments # "" => parse(fn.arguments).ok

convertStreamChunkToGeminiFormat(c) ==
    IF Len(c.choices) = 0
    THEN Returned([candidates |-> <<>>, usageMetadata |-> Absent])
    ELSE IF ~chunkParses(c.choices[1])
    THEN Thrown("SyntaxError")
    ELSE Returned([candidates |->
                     <<[content |-> [parts |-> chunkParts(c.choices[1]),
                                     role |-> "model"],
                        finishReason |->
                            IF Truthy(c.choices[1].finish_reason)
                            THEN Some(mapFinishReason(c.choices[1].finish_reason))
                            ELSE Absent]>>,
                   usageMetadata |-> Absent])

\* The finish reasons met: none, the empty string, the four of the switch and
\* one it does not know.
FinishReasons ==
    {Absent, Some(""), Some("stop"), Some("length"), Some("tool_calls"),
     Some("content_filter"), Some("eos")}

\* The choices of the responses and chunks converted.
Choices ==
    [content : {Absent, Some("hi")},
     tool_calls : {Absent,
                   Some(<<ToolCall("c1", "f", "{\"k\":1}")>>),
                   Some(<<ToolCall("c1", "f", "{\"k\":")>>),
                   Some(<<[ToolCall("c1", "f", "{}") EXCEPT !.type = "custom"],
                          ToolCall("c2", "g", "")>>)},
     finish_reason : FinishReasons]

Usages == {Absent, Some([prompt_tokens |-> 1, completion_tokens |-> 2,
                         total_tokens |-> 3])}

InitResponse ==
    /\ pc = "start"
    /\ completion \in [choices : SeqUpTo(Choices, MaxChoices), usage : Usages]
    /\ result = <<>>
    /\ messages = <<>> /\ cleaned = <<>> /\ cleanedTwice = <<>> /\ merged = <<>>
    /\ contents = <<>> /\ next = 0 /\ now = 0 /\ request = <<>> /\ marks = <<>>

\* convertToGeminiFormat(completion) returns or throws.
ConvertFull ==
    /\ pc = "start"
    /\ result' = convertToGeminiFormat(completion)
    /\ pc' = "full"
    /\ UNCHANGED <<completion, messages, cleaned, cleanedTwice, merged, contents,
                   next, now, request, marks>>

\* convertStreamChunkToGeminiFormat(completion) returns or throws.
ConvertChunk ==
    /\ pc = "start"
    /\ result' = convertStreamChunkToGeminiFormat(completion)
    /\ pc' = "chunk"
    /\ UNCHANGED <<completion, messages, cleaned, cleanedTwice, merged, contents,
                   next, now, request, marks>>

NextResponse == ConvertFull \/ ConvertChunk

SpecResponse == InitResponse /\ [][NextResponse]_vars

\* C6: without choices, convertToGeminiFormat throws and returns nothing,
\* and convertStreamChunkToGeminiFormat throws nothing and returns a response
\* without candidates.
C6_NoChoices ==
    Len(completion.choices) = 0 =>
        /\ pc = "full" => IsThere(result.error) /\ result.value = Absent
        /\ pc = "chunk" =>
             /\ result.error = Absent
             /\ IsThere(result.value)
             /\ result.value[1].candidates = <<>>

\* C6's case: a response without choices has been converted, and the call
\* threw.
C6_Witness ==
    /\ pc = "full"
    /\ Len(completion.choices) = 0
    /\ result.error = Some("No choices in OpenAI response")

\* The table of finish reasons, as the specification gives it.
FinishReasonTable(reason) ==
    IF reason = "stop" THEN "STOP"
    ELSE IF reason = "length" THEN "MAX_TOKENS"
    ELSE IF reason = "tool_calls" THEN "STOP"
    ELSE IF reason = "content_filter" THEN "SAFETY"
    ELSE "OTHER"

\* C7: the candidate convertToGeminiFormat returns has the finish reason the
\* table gives for choice 0's finish_reason (OTHER when there is none), one
\* of the four values, whatever the other choices are.
C7_FinishReasonMapped ==
    (pc = "full" /\ IsThere(result.value)) =>
        LET reason == completion.choices[1].finish_reason
            candidate == result.value[1].candidates[1]
        IN /\ Len(result.value[1].candidates) = 1
           /\ candidate.finishReason =
                Some(IF IsThere(reason) THEN FinishReasonTable(reason[1]) ELSE "OTHER")
           /\ candidate.finishReason[1] \in {"STOP", "MAX_TOKENS", "SAFETY", "OTHER"}

\* C7's case: a response whose choice 0 finished with tool_calls, and whose
\* next choice finished otherwise, has been converted to a candidate with STOP.
C7_Witness ==
    /\ pc = "full"
    /\ Len(completion.choices) >= 2
    /\ completion.choices[1].finish_reason = Some("tool_calls")
    /\ completion.choices[2].finish_reason = Some("length")
    /\ IsThere(result.value)
    /\ result.value[1].candidates[1].finishReason = Some("STOP")

\* C9: the candidate convertStreamChunkToGeminiFormat returns has the finish
\* reason the table gives for choice 0's finish_reason when the chunk has one,
\* the empty string included, and none exactly when the chunk has none.
C9_ChunkFinishReason ==
    (pc = "chunk" /\ Len(completion.choices) > 0 /\ IsThere(result.value)) =>
        LET reason == completion.choices[1].finish_reason
            candidate == result.value[1].candidates[1]
        IN /\ IsThere(reason) =>
                candidate.finishReason = Some(FinishReasonTable(reason[1]))
           /\ ~IsThere(reason) => candidate.finishReason = Absent

====
